---- MODULE Spec2Model ----
(***************************************************************************)
(* Model of bsky-audit-log (src/tool/main.go): main (arguments,            *)
(* environment, session creation, selfID, the id command), print, the      *)
(* four cursor-paginated listing functions (following, followers,          *)
(* blocked, muted) and the retry wrapper retryWithBackoff.                 *)
(*                                                                         *)
(* The remote service is the environment: the answer to each listing call  *)
(* (a page, a 429, another error) is chosen when the call is made.         *)
(* Durations are in seconds.                                               *)
(***************************************************************************)
EXTENDS Integers, Sequences, FiniteSets, TLC

\* ------------------------------------------------------------ constants
apiCallDelay == 1
maxRetries == 5
initialBackoff == 2
\* the page-size limit every listing call passes
pageLimit == 100

\* ------------------------------------------------------------ bounds
\* pages a listing may fetch before the model stops following a remote
\* that keeps returning a continuation token (the code has no such cap)
MaxPages == 3

\* ------------------------------------------------------------ values
\* a *string: <<>> is nil, <<s>> points to s
NilPtr == <<>>
Ptr(s) == <<s>>

Tokens == {"T1", "T2"}
CursorValues == {NilPtr, Ptr("")} \cup {Ptr(t) : t \in Tokens}

\* bsky.ActorDefs_ProfileView, the two fields the program reads
acctA == [Did |-> "did:a", Handle |-> "alice"]
acctB == [Did |-> "did:b", Handle |-> "bob"]
PageItems == {<<>>, <<acctA>>, <<acctB>>, <<acctA, acctB>>}

\* a listing call's output: the items field (Follows, Followers, Blocks or
\* Mutes) and the Cursor
Pages == [Items : PageItems, Cursor : CursorValues]
NilResult == [Items |-> <<>>, Cursor |-> NilPtr, isNil |-> TRUE]

\* errors: nil, an *xrpc.Error with a status code, or any other error
NoErr == [type |-> "nil", StatusCode |-> 0, msg |-> ""]
XrpcErr(code, m) == [type |-> "xrpc", StatusCode |-> code, msg |-> m]
PlainErr(m) == [type |-> "plain", StatusCode |-> 0, msg |-> m]
RemoteErrors ==
    {XrpcErr(429, "e1"), XrpcErr(429, "e2"), XrpcErr(500, "e1"), PlainErr("e1")}

Responses == Pages \cup RemoteErrors
IsPage(r) == r \in Pages

\* the four runFuncs of cmds
Kinds == {"following", "followers", "blocked", "muted"}

\* the nil runFunc cmds holds for "id"
NilFunc == "nil"

\* cmds
cmds == [id |-> NilFunc, following |-> "following", followers |-> "followers",
         mutes |-> "muted", blocks |-> "blocked"]

\* the positional arguments a run may be started with (flag.Args())
ArgLists ==
    {<<>>, <<"id">>, <<"following">>, <<"followers">>, <<"mutes">>,
     <<"blocks">>, <<"bogus">>, <<"id", "following">>}

\* the environment variables main reads, in the order it reads them
EnvNames == <<"BSKY_HANDLE", "BSKY_APP_PWD", "BSKY_INSTANCE">>

\* the environments a run may be started in: "" is unset or empty
Envs ==
    [BSKY_HANDLE : {"", "me.test"}, BSKY_APP_PWD : {"", "pw"},
     BSKY_INSTANCE : {"", "https://host"}]

\* the account the listing is asked about (client.Auth.Did)
selfDid == "did:self"

\* client.Auth: nil fields before the session is created
NoAuth == [Handle |-> "", AccessJwt |-> "", RefreshJwt |-> "", Did |-> ""]

\* atproto.ServerCreateSession_Output, the fields main reads
SessionOutputs ==
    {[AccessJwt |-> "access", RefreshJwt |-> "refresh", Did |-> selfDid,
      Handle |-> "me.example"]}

\* bsky.ActorDefs_ProfileViewDetailed, the fields the program reads: the
\* remote answers with the profile of the account asked for
ProfileOutputs == {[Did |-> selfDid, Handle |-> "me.example"]}

\* the errors ServerCreateSession and ActorGetProfile may return
BootstrapErrors == {XrpcErr(429, "e1"), XrpcErr(500, "e1"), PlainErr("e1")}

\* the value main panics with
NoFatal == [msg |-> "", cause |-> NoErr]
Fatal(m, e) == [msg |-> m, cause |-> e]


VARIABLES
    kind,           \* the listing function print was given
    pc,             \* position of the single thread of control
    accounts,       \* listing: accumulated accounts
    cursor,         \* listing: cursor
    pageNum,        \* listing: pageNum
    currentCursor,  \* listing: the cursor captured by the closure
    operationName,  \* retryWithBackoff: operationName
    attempt,        \* retryWithBackoff: attempt
    backoff,        \* retryWithBackoff: backoff
    lastErr,        \* retryWithBackoff: lastErr
    fs,             \* value returned by retryWithBackoff
    err,            \* error returned by retryWithBackoff
    ret,            \* (accounts, error) returned by the listing function
    stdout,         \* writes to standard output, in order
    args,           \* main: the positional arguments
    env,            \* main: the environment
    config,         \* main: bskyHandle, bskyAppPwd, bskyInstance
    auth,           \* main: client.Auth
    fatal,          \* main: the value the process panicked with
    sessionCalls,   \* history: calls of atproto.ServerCreateSession
    profileCalls,   \* history: calls of bsky.ActorGetProfile
    events,         \* history: log lines, sleeps and calls of this page fetch
    served,         \* history: the pages the remote returned, in order
    lastCall,       \* history: parameters of the latest listing call
    lastReturned,   \* history: the error the latest failed call returned
    calls,          \* history: calls of operation() in this retryWithBackoff
    hits429,        \* history: 429 answers in this retryWithBackoff
    waits,          \* history: backoff sleeps in this retryWithBackoff
    delays,         \* history: number of apiCallDelay sleeps
    throttled,      \* history: some call of this run returned a 429
    variant,        \* which program of src/ runs
    totalCalls      \* history: listing calls of this run, where counted

vars == <<kind, pc, accounts, cursor, pageNum, currentCursor, operationName,
          attempt, backoff, lastErr, fs, err, ret, stdout, served, lastCall,
          lastReturned, calls, hits429, waits, delays, throttled, args, env,
          config, auth, fatal, sessionCalls, profileCalls, events, variant,
          totalCalls>>

mainVars == <<args, env, config, auth, fatal, sessionCalls, profileCalls>>
listingVars == <<accounts, cursor, pageNum, currentCursor>>
retryVars == <<operationName, attempt, backoff, lastErr>>
historyVars ==
    <<served, lastCall, lastReturned, calls, hits429, waits, delays, throttled>>
\* the program that runs and the run-wide call counter: no action of
\* src/tool/main.go reads or writes them
auxVars == <<variant, totalCalls>>

NoCall == [method |-> "", actor |-> NilPtr, cursor |-> "", limit |-> 0, page |-> 0]
NoName == [call |-> "", page |-> 0]
NoRet == [out |-> <<>>, err |-> NoErr]
NoConfig == [bskyHandle |-> "", bskyAppPwd |-> "", bskyInstance |-> ""]

\* ------------------------------------------------------------ helpers
\* the remote call each listing function wraps
Method(k) ==
    CASE k = "following" -> "GraphGetFollows"
      [] k = "followers" -> "GraphGetFollowers"
      [] k = "blocked"   -> "GraphGetBlocks"
      [] k = "muted"     -> "GraphGetMutes"

\* mutant: GraphGetMutes is passed did as well
Actor_MutesTakesDid(k, did) == IF k # "blocked" THEN Ptr(did) ELSE NilPtr

\* the actor argument of the remote call: GraphGetFollows and
\* GraphGetFollowers take did, GraphGetBlocks and GraphGetMutes take none
Actor(k, did) == IF k \in {"following", "followers"} THEN Ptr(did) ELSE NilPtr

\* fmt.Sprintf("<call> page %d", pageNum)
OpName(k, n) == [call |-> Method(k), page |-> n]

\* mutant: no error is classified as a rate limit
IsRateLimit_Never(e) == FALSE

\* mutant: every *xrpc.Error is classified as a rate limit
IsRateLimit_AnyXrpc(e) == e.type = "xrpc"

\* err.(*xrpc.Error) succeeds and StatusCode == 429
IsRateLimit(e) == e.type = "xrpc" /\ e.StatusCode = 429

\* fmt.Errorf("%s failed after %d retries: %w", operationName, maxRetries, lastErr)
ExhaustedErr(name, last) ==
    [type |-> "exhausted", StatusCode |-> 0, msg |-> "failed after retries",
     operationName |-> name, retries |-> maxRetries, wrapped |-> last]

\* mutant: only a nil cursor counts as absent
CursorPresent_NilOnly(p) == p.Cursor # NilPtr

\* fs.Cursor != nil && *fs.Cursor != ""
CursorPresent(p) == p.Cursor # NilPtr /\ p.Cursor[1] # ""

\* mutant: the empty-page check is missing
EmptyPage_Never(p) == FALSE

\* len(items) == 0
EmptyPage(p) == Len(p.Items) = 0

\* mutant: the retry loop runs once more (attempt <= maxRetries + 1)
LoopCond_OneMore(a) == a <= maxRetries + 1

\* mutant: the retry loop stops one attempt early
LoopCond_Strict(a) == a < maxRetries

\* the retry loop's condition, attempt <= maxRetries
LoopCond(a) == a <= maxRetries

\* mutant: only the first error is kept
RecordErr_First(prev, e) == IF prev = NoErr THEN e ELSE prev

\* lastErr = err
RecordErr(prev, e) == e

\* mutant: the backoff grows linearly
NextBackoff_Linear(b) == b + initialBackoff

\* backoff *= 2
NextBackoff(b) == b * 2

\* mutant: the closure does not pass the captured cursor
CallParams_NoCursor(k, did, cur, n) ==
    [method |-> Method(k), actor |-> Actor(k, did), cursor |-> "",
     limit |-> pageLimit, page |-> n]

\* the arguments of the remote call the closure makes
CallParams(k, did, cur, n) ==
    [method |-> Method(k), actor |-> Actor(k, did), cursor |-> cur,
     limit |-> pageLimit, page |-> n]

\* mutant: the accounts fetched so far are returned with the error
ErrorReturn_Partial(acc, e) == [out |-> acc, err |-> e]

\* return nil, err
ErrorReturn(acc, e) == [out |-> <<>>, err |-> e]

\* mutant: the page is put in front of the accounts
AppendAll_Prepend(acc, items) == items \o acc

\* append(accounts, items...)
AppendAll(acc, items) == acc \o items

\* the listing loop when every call succeeds at its first attempt, as a
\* function of the pages the remote returns: append, then break on an
\* absent or empty cursor or on an empty page
RECURSIVE ListingOf(_, _, _)
ListingOf(ps, i, acc) ==
    IF i > Len(ps) THEN acc
    ELSE LET acc2 == acc \o ps[i].Items
         IN  IF ps[i].Cursor # NilPtr /\ ps[i].Cursor[1] # ""
             THEN IF Len(ps[i].Items) = 0 THEN acc2
                  ELSE ListingOf(ps, i + 1, acc2)
             ELSE acc2

\* the loop body of following after a fetched page p: append p's Follows,
\* take its cursor when present and non-empty, and break on an absent or
\* empty cursor or on an empty page
followingBody(acc, cur, p) ==
    LET acc2 == AppendAll(acc, p.Items)
    IN  IF CursorPresent(p)
        THEN [accounts |-> acc2, cursor |-> p.Cursor[1], brk |-> EmptyPage(p)]
        ELSE [accounts |-> acc2, cursor |-> cur, brk |-> TRUE]

\* the loop body of followers, on p's Followers
followersBody(acc, cur, p) ==
    LET acc2 == AppendAll(acc, p.Items)
    IN  IF CursorPresent(p)
        THEN [accounts |-> acc2, cursor |-> p.Cursor[1], brk |-> EmptyPage(p)]
        ELSE [accounts |-> acc2, cursor |-> cur, brk |-> TRUE]

\* mutant: blocked takes the cursor when it is not nil and breaks only on an
\* empty page
blockedBody_NoCursorBreak(acc, cur, p) ==
    [accounts |-> AppendAll(acc, p.Items),
     cursor |-> IF p.Cursor # NilPtr THEN p.Cursor[1] ELSE cur,
     brk |-> EmptyPage(p)]

\* the loop body of blocked, on p's Blocks
blockedBody(acc, cur, p) ==
    LET acc2 == AppendAll(acc, p.Items)
    IN  IF CursorPresent(p)
        THEN [accounts |-> acc2, cursor |-> p.Cursor[1], brk |-> EmptyPage(p)]
        ELSE [accounts |-> acc2, cursor |-> cur, brk |-> TRUE]

\* the loop body of muted, on p's Mutes
mutedBody(acc, cur, p) ==
    LET acc2 == AppendAll(acc, p.Items)
    IN  IF CursorPresent(p)
        THEN [accounts |-> acc2, cursor |-> p.Cursor[1], brk |-> EmptyPage(p)]
        ELSE [accounts |-> acc2, cursor |-> cur, brk |-> TRUE]

\* the loop body of the runFunc k
LoopBody(k, acc, cur, p) ==
    CASE k = "following" -> followingBody(acc, cur, p)
      [] k = "followers" -> followersBody(acc, cur, p)
      [] k = "blocked"   -> blockedBody(acc, cur, p)
      [] k = "muted"     -> mutedBody(acc, cur, p)

\* mutant: the handle is written before the identifier
FormatLine_HandleFirst(a) == <<a.Handle, ",", a.Did, "\n">>

\* fmt.Printf("%s,%s\n", acc.Did, acc.Handle), one line per account
FormatLine(a) == <<a.Did, ",", a.Handle, "\n">>
FormatAll(out) == [i \in 1..Len(out) |-> FormatLine(out[i])]

\* ------------------------------------------------------------ trace
\* log.Printf("Fetching <kind> page %d (cursor: %s)", pageNum, cursor)
FetchingLog(n, cur) ==
    [type |-> "log_fetching", n |-> n, m |-> 0, name |-> NoName, d |-> 0, cur |-> cur]

\* mutant: the line is written after the backoff was doubled
RetryLogLine_AfterDoubling(a, name, b) ==
    [type |-> "log_retry", n |-> a, m |-> maxRetries, name |-> name,
     d |-> b * 2, cur |-> ""]

\* log.Printf("Retry attempt %d/%d for %s after rate limit, waiting %v",
\*            attempt, maxRetries, operationName, backoff)
RetryLogLine(a, name, b) ==
    [type |-> "log_retry", n |-> a, m |-> maxRetries, name |-> name, d |-> b, cur |-> ""]

\* log.Printf("Rate limit hit for %s (attempt %d/%d)", operationName,
\*            attempt+1, maxRetries+1)
RateLimitLog(a, name) ==
    [type |-> "log_ratelimit", n |-> a + 1, m |-> maxRetries + 1, name |-> name,
     d |-> 0, cur |-> ""]

\* log.Printf("Fetched %d accounts (total: %d)", len(items), len(accounts))
FetchedLog(n, total) ==
    [type |-> "log_fetched", n |-> n, m |-> total, name |-> NoName, d |-> 0, cur |-> ""]

\* log.Printf("Total <kind> fetched: %d", len(accounts))
TotalLog(total) ==
    [type |-> "log_total", n |-> total, m |-> 0, name |-> NoName, d |-> 0, cur |-> ""]

\* time.Sleep(d)
SleepEv(d) ==
    [type |-> "sleep", n |-> 0, m |-> 0, name |-> NoName, d |-> d, cur |-> ""]

\* operation(): the remote listing call for page n
CallEv(n) ==
    [type |-> "call", n |-> n, m |-> 0, name |-> NoName, d |-> 0, cur |-> ""]

\* ------------------------------------------------------------ main helpers
\* mutant: only the first variable is checked
FirstUnset_HandleOnly(e) == IF e[EnvNames[1]] = "" THEN 1 ELSE 0

\* the index in EnvNames of the first variable that is unset or empty, or 0
FirstUnset(e) ==
    IF \E i \in 1..Len(EnvNames) : e[EnvNames[i]] = ""
    THEN CHOOSE i \in 1..Len(EnvNames) :
            /\ e[EnvNames[i]] = ""
            /\ \A j \in 1..(i - 1) : e[EnvNames[j]] # ""
    ELSE 0

\* mutant: the early return for "id" is missing
IsIdCommand_Never(arg) == FALSE

\* flag.Arg(0) == "id"
IsIdCommand(arg) == arg = "id"

\* fmt.Print(profile.Did)
IdOutput(d) == <<d>>

\* ------------------------------------------------------------ Init
Init ==
    /\ args \in ArgLists
    /\ env \in Envs
    /\ config = NoConfig
    /\ auth = NoAuth
    /\ fatal = NoFatal
    /\ sessionCalls = 0
    /\ profileCalls = 0
    /\ events = <<>>
    /\ kind = NilFunc
    /\ pc = "main"
    /\ accounts = <<>>
    /\ cursor = ""
    /\ pageNum = 0
    /\ currentCursor = ""
    /\ operationName = NoName
    /\ attempt = 0
    /\ backoff = initialBackoff
    /\ lastErr = NoErr
    /\ fs = NilResult
    /\ err = NoErr
    /\ ret = NoRet
    /\ stdout = <<>>
    /\ served = <<>>
    /\ lastCall = NoCall
    /\ lastReturned = NoErr
    /\ calls = 0
    /\ hits429 = 0
    /\ waits = <<>>
    /\ delays = 0
    /\ throttled = FALSE
    /\ variant = "tool"
    /\ totalCalls = 0

\* ------------------------------------------------------------ actions
\* main: exactly one positional argument, and it names a command of cmds
ParseArgs ==
    /\ pc = "main"
    /\ IF Len(args) # 1
       THEN /\ pc' = "panic"
            /\ fatal' = Fatal("requires 1 positional argument", NoErr)
            /\ kind' = kind
       ELSE IF args[1] \notin DOMAIN cmds
       THEN /\ pc' = "panic"
            /\ fatal' = Fatal("unknown command", NoErr)
            /\ kind' = kind
       ELSE /\ pc' = "env"
            /\ kind' = cmds[args[1]]
            /\ fatal' = fatal
    /\ UNCHANGED <<listingVars, retryVars, fs, err, ret, stdout, historyVars,
                   args, env, config, auth, sessionCalls, profileCalls, events>>

\* main: read BSKY_HANDLE, BSKY_APP_PWD and BSKY_INSTANCE, in that order,
\* and panic at the first that is unset or empty
ReadEnv ==
    /\ pc = "env"
    /\ IF FirstUnset(env) # 0
       THEN /\ pc' = "panic"
            /\ fatal' = Fatal(EnvNames[FirstUnset(env)], NoErr)
            /\ config' = config
       ELSE /\ pc' = "session"
            /\ config' = [bskyHandle |-> env.BSKY_HANDLE,
                          bskyAppPwd |-> env.BSKY_APP_PWD,
                          bskyInstance |-> env.BSKY_INSTANCE]
            /\ fatal' = fatal
    /\ UNCHANGED <<kind, listingVars, retryVars, fs, err, ret, stdout,
                   historyVars, args, env, auth, sessionCalls, profileCalls,
                   events>>

\* main: build the client with the configured handle, create the session
\* and copy its tokens, identifier and handle into client.Auth
CreateSession(resp) ==
    /\ pc = "session"
    /\ sessionCalls' = sessionCalls + 1
    /\ IF resp \in SessionOutputs
       THEN /\ auth' = [Handle |-> resp.Handle, AccessJwt |-> resp.AccessJwt,
                        RefreshJwt |-> resp.RefreshJwt, Did |-> resp.Did]
            /\ pc' = "selfid"
            /\ fatal' = fatal
       ELSE /\ auth' = [NoAuth EXCEPT !.Handle = config.bskyHandle]
            /\ pc' = "panic"
            /\ fatal' = Fatal("ServerCreateSession failed", resp)
    /\ UNCHANGED <<kind, listingVars, retryVars, fs, err, ret, stdout,
                   historyVars, args, env, config, profileCalls, events>>

\* mutant: the profile fetch is tried again after a 429
SelfID_Retry429(resp) ==
    /\ pc = "selfid"
    /\ profileCalls' = profileCalls + 1
    /\ IF resp \in ProfileOutputs
       THEN /\ fatal' = fatal
            /\ IF IsIdCommand(args[1])
               THEN /\ stdout' = Append(stdout, IdOutput(resp.Did))
                    /\ pc' = "exit"
               ELSE /\ stdout' = stdout
                    /\ pc' = "print"
       ELSE IF IsRateLimit(resp)
       THEN /\ pc' = "selfid"
            /\ UNCHANGED <<fatal, stdout>>
       ELSE /\ pc' = "panic"
            /\ fatal' = Fatal("selfID failed", resp)
            /\ stdout' = stdout
    /\ UNCHANGED <<kind, listingVars, retryVars, fs, err, ret, historyVars,
                   args, env, config, auth, sessionCalls, events>>

\* main: selfID fetches the profile of client.Auth.Did; for the command id
\* print its Did and return, otherwise go on to print
SelfID(resp) ==
    /\ pc = "selfid"
    /\ profileCalls' = profileCalls + 1
    /\ IF resp \in ProfileOutputs
       THEN /\ fatal' = fatal
            /\ IF IsIdCommand(args[1])
               THEN /\ stdout' = Append(stdout, IdOutput(resp.Did))
                    /\ pc' = "exit"
               ELSE /\ stdout' = stdout
                    /\ pc' = "print"
       ELSE /\ pc' = "panic"
            /\ fatal' = Fatal("selfID failed", resp)
            /\ stdout' = stdout
    /\ UNCHANGED <<kind, listingVars, retryVars, fs, err, ret, historyVars,
                   args, env, config, auth, sessionCalls, events>>

\* print calls fnc(ctx, c, did); the listing function declares its locals
\* (calling the nil runFunc of "id" would panic)
ListingEnter ==
    /\ pc = "print"
    /\ IF kind = NilFunc
       THEN /\ pc' = "panic"
            /\ fatal' = Fatal("nil func", NoErr)
       ELSE /\ pc' = "loop"
            /\ fatal' = fatal
    /\ accounts' = <<>>
    /\ cursor' = ""
    /\ pageNum' = 0
    /\ UNCHANGED <<kind, currentCursor, retryVars, fs, err, ret, stdout,
                   historyVars, args, env, config, auth, sessionCalls,
                   profileCalls, events>>

\* mutant: the access token is replaced by the refresh token before every
\* page fetch
LoopTop_RotatesToken ==
    /\ pc = "loop"
    /\ pageNum < MaxPages
    /\ pc' = "retry"
    /\ pageNum' = pageNum + 1
    /\ currentCursor' = cursor
    /\ operationName' = OpName(kind, pageNum + 1)
    /\ lastErr' = NoErr
    /\ backoff' = initialBackoff
    /\ attempt' = 0
    /\ calls' = 0
    /\ hits429' = 0
    /\ waits' = <<>>
    /\ events' = <<FetchingLog(pageNum + 1, cursor)>>
    /\ auth' = [auth EXCEPT !.AccessJwt = auth.RefreshJwt]
    /\ UNCHANGED <<kind, accounts, cursor, fs, err, ret, stdout, served,
                   lastCall, lastReturned, delays, throttled, args, env,
                   config, fatal, sessionCalls, profileCalls>>

\* mutant: the retry state outlives the page fetch (attempt, backoff and
\* lastErr are not reset when retryWithBackoff is entered)
LoopTop_KeepsRetryState ==
    /\ pc = "loop"
    /\ pageNum < MaxPages
    /\ pc' = "retry"
    /\ pageNum' = pageNum + 1
    /\ currentCursor' = cursor
    /\ operationName' = OpName(kind, pageNum + 1)
    /\ calls' = 0
    /\ hits429' = 0
    /\ waits' = <<>>
    /\ events' = <<FetchingLog(pageNum + 1, cursor)>>
    /\ UNCHANGED <<kind, accounts, cursor, fs, err, ret, stdout, served,
                   lastCall, lastReturned, delays, throttled, mainVars,
                   attempt, backoff, lastErr>>

\* top of the listing loop: count the page, log, capture the cursor, and
\* enter retryWithBackoff (lastErr nil, backoff initialBackoff, attempt 0)
LoopTop ==
    /\ pc = "loop"
    /\ pageNum < MaxPages
    /\ pc' = "retry"
    /\ pageNum' = pageNum + 1
    /\ currentCursor' = cursor
    /\ operationName' = OpName(kind, pageNum + 1)
    /\ lastErr' = NoErr
    /\ backoff' = initialBackoff
    /\ attempt' = 0
    /\ calls' = 0
    /\ hits429' = 0
    /\ waits' = <<>>
    /\ events' = <<FetchingLog(pageNum + 1, cursor)>>
    /\ UNCHANGED <<kind, accounts, cursor, fs, err, ret, stdout, served,
                   lastCall, lastReturned, delays, throttled, mainVars>>

\* one iteration of the retry loop: log, sleep and double when attempt > 0,
\* call operation(), then return the result, log and continue on a 429, or
\* return the error
Attempt(resp) ==
    /\ pc = "retry"
    /\ LoopCond(attempt)
    /\ waits' = IF attempt > 0 THEN Append(waits, backoff) ELSE waits
    /\ backoff' = IF attempt > 0 THEN NextBackoff(backoff) ELSE backoff
    /\ calls' = calls + 1
    /\ lastCall' = CallParams(kind, auth.Did, currentCursor, pageNum)
    /\ events' =
          events
          \o (IF attempt > 0
              THEN <<RetryLogLine(attempt, operationName, backoff), SleepEv(backoff)>>
              ELSE <<>>)
          \o <<CallEv(pageNum)>>
          \o (IF ~IsPage(resp) /\ IsRateLimit(resp)
              THEN <<RateLimitLog(attempt, operationName)>>
              ELSE <<>>)
    /\ IF IsPage(resp)
       THEN /\ fs' = resp
            /\ err' = NoErr
            /\ pc' = "returned"
            /\ served' = Append(served, resp)
            /\ UNCHANGED <<lastErr, attempt, lastReturned, hits429, throttled>>
       ELSE /\ lastErr' = RecordErr(lastErr, resp)
            /\ lastReturned' = resp
            /\ served' = served
            /\ hits429' = IF resp.StatusCode = 429 THEN hits429 + 1 ELSE hits429
            /\ throttled' = (throttled \/ resp.StatusCode = 429)
            /\ IF IsRateLimit(resp)
               THEN /\ attempt' = attempt + 1
                    /\ pc' = "retry"
                    /\ UNCHANGED <<fs, err>>
               ELSE /\ fs' = NilResult
                    /\ err' = resp
                    /\ pc' = "returned"
                    /\ attempt' = attempt
    /\ UNCHANGED <<kind, listingVars, operationName, ret, stdout, delays,
                   mainVars>>

\* the retry loop's condition fails: return the retry-exhaustion error
RetryExhausted ==
    /\ pc = "retry"
    /\ ~LoopCond(attempt)
    /\ fs' = NilResult
    /\ err' = ExhaustedErr(operationName, lastErr)
    /\ pc' = "returned"
    /\ UNCHANGED <<kind, listingVars, retryVars, ret, stdout, historyVars,
                   mainVars, events>>

\* mutant: the listing sleeps apiCallDelay before it looks at the cursor and
\* the page, so also after the terminating page
AfterFetch_SleepBeforeBreak ==
    /\ pc = "returned"
    /\ IF err # NoErr
       THEN /\ ret' = ErrorReturn(accounts, err)
            /\ pc' = "print_ret"
            /\ UNCHANGED <<accounts, cursor, delays, events>>
       ELSE /\ accounts' = AppendAll(accounts, fs.Items)
            /\ delays' = delays + 1
            /\ cursor' = IF CursorPresent(fs) THEN fs.Cursor[1] ELSE cursor
            /\ IF CursorPresent(fs) /\ ~EmptyPage(fs)
               THEN /\ pc' = "loop"
                    /\ ret' = ret
                    /\ events' = events
                          \o <<FetchedLog(Len(fs.Items), Len(accounts')),
                               SleepEv(apiCallDelay)>>
               ELSE /\ ret' = [out |-> accounts', err |-> NoErr]
                    /\ pc' = "print_ret"
                    /\ events' = events
                          \o <<FetchedLog(Len(fs.Items), Len(accounts')),
                               SleepEv(apiCallDelay), TotalLog(Len(accounts'))>>
    /\ UNCHANGED <<kind, pageNum, currentCursor, retryVars, fs, err, stdout,
                   served, lastCall, lastReturned, calls, hits429, waits,
                   throttled, mainVars>>

\* the listing loop after retryWithBackoff returned: return the error, or
\* append the page, log, take its cursor, and either break, log and return
\* the accounts or sleep apiCallDelay and loop
AfterFetch ==
    /\ pc = "returned"
    /\ IF err # NoErr
       THEN /\ ret' = ErrorReturn(accounts, err)
            /\ pc' = "print_ret"
            /\ UNCHANGED <<accounts, cursor, delays, events>>
       ELSE LET r == LoopBody(kind, accounts, cursor, fs)
            IN  /\ accounts' = r.accounts
                /\ cursor' = r.cursor
                /\ IF r.brk
                   THEN /\ ret' = [out |-> r.accounts, err |-> NoErr]
                        /\ pc' = "print_ret"
                        /\ delays' = delays
                        /\ events' = events
                              \o <<FetchedLog(Len(fs.Items), Len(r.accounts)),
                                   TotalLog(Len(r.accounts))>>
                   ELSE /\ delays' = delays + 1
                        /\ pc' = "loop"
                        /\ ret' = ret
                        /\ events' = events
                              \o <<FetchedLog(Len(fs.Items), Len(r.accounts)),
                                   SleepEv(apiCallDelay)>>
    /\ UNCHANGED <<kind, pageNum, currentCursor, retryVars, fs, err, stdout,
                   served, lastCall, lastReturned, calls, hits429, waits,
                   throttled, mainVars>>

\* print after fnc returned: return the error (main panics with it), or
\* write one line per account
PrintOut ==
    /\ pc = "print_ret"
    /\ IF ret.err # NoErr
       THEN /\ pc' = "panic"
            /\ fatal' = Fatal("", ret.err)
            /\ stdout' = stdout
       ELSE /\ pc' = "exit"
            /\ fatal' = fatal
            /\ stdout' = stdout \o FormatAll(ret.out)
    /\ UNCHANGED <<kind, listingVars, retryVars, fs, err, ret, historyVars,
                   args, env, config, auth, sessionCalls, profileCalls, events>>

Next ==
    \/ ParseArgs /\ UNCHANGED auxVars
    \/ ReadEnv /\ UNCHANGED auxVars
    \/ \E resp \in SessionOutputs \cup BootstrapErrors :
          CreateSession(resp) /\ UNCHANGED auxVars
    \/ \E resp \in ProfileOutputs \cup BootstrapErrors :
          SelfID(resp) /\ UNCHANGED auxVars
    \/ ListingEnter /\ UNCHANGED auxVars
    \/ LoopTop /\ UNCHANGED auxVars
    \/ \E resp \in Responses : Attempt(resp) /\ UNCHANGED auxVars
    \/ RetryExhausted /\ UNCHANGED auxVars
    \/ AfterFetch /\ UNCHANGED auxVars
    \/ PrintOut /\ UNCHANGED auxVars

Spec == Init /\ [][Next]_vars

\* ------------------------------------------- termination and call count
\* one answer of every class the retry loop and the listing loop tell apart:
\* pages with and without items, with an absent, an empty and a non-empty
\* token, a 429, another xrpc error and an error of another type
ResponsesT ==
    [Items : {<<>>, <<acctA>>}, Cursor : {NilPtr, Ptr(""), Ptr("T1")}]
    \cup {XrpcErr(429, "e1"), XrpcErr(500, "e1"), PlainErr("e1")}

\* the steps of Next, with every call of operation() counted in totalCalls
NextT ==
    \/ ParseArgs /\ UNCHANGED auxVars
    \/ ReadEnv /\ UNCHANGED auxVars
    \/ \E resp \in SessionOutputs \cup BootstrapErrors :
          CreateSession(resp) /\ UNCHANGED auxVars
    \/ \E resp \in ProfileOutputs \cup BootstrapErrors :
          SelfID(resp) /\ UNCHANGED auxVars
    \/ ListingEnter /\ UNCHANGED auxVars
    \/ LoopTop /\ UNCHANGED auxVars
    \/ \E resp \in ResponsesT :
          Attempt(resp) /\ totalCalls' = totalCalls + 1 /\ UNCHANGED variant
    \/ RetryExhausted /\ UNCHANGED auxVars
    \/ AfterFetch /\ UNCHANGED auxVars
    \/ PrintOut /\ UNCHANGED auxVars

\* the process is one sequential thread: every sleep ends and every remote
\* call returns an answer, so a step that can be taken is taken
SpecT == Init /\ [][NextT]_vars /\ WF_vars(NextT)

\* ------------------------------------------- the variants without retry
\* the programs of src/unnamed: part_000, the first program of part_001
\* (lines 1-228) and the second program of part_001 (lines 230-406)
Variants == {"part_000", "part_001", "part_001b"}

\* part_000 prints every variable's value as it reads it (fmt.Println(vv))
PrintsEnv(v) == v = "part_000"

\* part_000 and the first program of part_001 call ServerDescribeServer and
\* check the session's tokens; the second program of part_001 has main of
\* src/tool/main.go
ChecksServer(v) == v \in {"part_000", "part_001"}

\* blocked of part_000 has its loop commented out
HasLoop(v, k) == ~(v = "part_000" /\ k = "blocked")

\* the environments of a variant's run: two app passwords
VEnvs ==
    [BSKY_HANDLE : {"", "me.test"}, BSKY_APP_PWD : {"", "pw", "pw2"},
     BSKY_INSTANCE : {"", "https://host"}]

\* the tokens a session may carry, by what jwt.ParseUnverified and
\* GetExpirationTime make of them
JwtParses(t) == t # "garbage"
JwtScope(t) == IF t = "master" THEN "com.atproto.access" ELSE "com.atproto.appPass"
JwtExpOk(t) == t # "badexp"

\* atproto.ServerCreateSession_Output as the variants read it
VSessionOutputs ==
    [AccessJwt : {"access", "master", "garbage", "badexp"},
     RefreshJwt : {"refresh", "garbage", "badexp"},
     Did : {selfDid}, Handle : {"me.example"}]

\* fmt.Println(vv): the value and a newline
PrintlnOutput(vv) == <<vv, "\n">>

\* what the env loop writes to stdout: in part_000 one line for every
\* variable before the first that is unset or empty, nothing in the others
EnvPrinted(v, e) ==
    IF ~PrintsEnv(v) THEN <<>>
    ELSE LET n == IF FirstUnset(e) = 0 THEN 3 ELSE FirstUnset(e) - 1
         IN  [i \in 1..n |-> PrintlnOutput(e[EnvNames[i]])]

\* the first check of the session's tokens that fails, "" if none does
TokenFault(out) ==
    IF ~JwtParses(out.AccessJwt) THEN "token verify failed"
    ELSE IF JwtScope(out.AccessJwt) # "com.atproto.appPass"
    THEN "Unauthorized jwt claim"
    ELSE IF ~JwtExpOk(out.AccessJwt)
    THEN "token expiration date verification failed"
    ELSE IF ~JwtParses(out.RefreshJwt) THEN "token parse failed"
    ELSE IF ~JwtExpOk(out.RefreshJwt)
    THEN "token refresh expiration date verification failed"
    ELSE ""

\* the parameters of a variant's listing call: following and followers pass
\* the account, blocked and muted do not; every call passes cursor and 100
VCallParams(k, did, cur) ==
    [method |-> Method(k),
     actor |-> IF k \in {"following", "followers"} THEN Ptr(did) ELSE NilPtr,
     cursor |-> cur, limit |-> 100, page |-> 0]

\* mutant: the loop also breaks on a page without a token, as the loop of
\* src/tool/main.go does
VLoopBody_BreakOnNil(acc, cur, p) ==
    [accounts |-> acc \o p.Items,
     cursor |-> IF p.Cursor # NilPtr THEN p.Cursor[1] ELSE cur,
     brk |-> (Len(p.Items) = 0 \/ p.Cursor = NilPtr)]

\* mutant: a page without a token resets the cursor
VLoopBody_ResetsCursor(acc, cur, p) ==
    [accounts |-> acc \o p.Items,
     cursor |-> IF p.Cursor # NilPtr THEN p.Cursor[1] ELSE "",
     brk |-> Len(p.Items) = 0]

\* the loop body of a variant's listing function after a successful call:
\* append the page, take its cursor if it has one, break on a zero-item page
VLoopBody(acc, cur, p) ==
    [accounts |-> acc \o p.Items,
     cursor |-> IF p.Cursor # NilPtr THEN p.Cursor[1] ELSE cur,
     brk |-> Len(p.Items) = 0]

\* the variables only retryWithBackoff and the paging of src/tool/main.go use
toolVars ==
    <<pageNum, currentCursor, operationName, attempt, backoff, lastErr,
      lastReturned, calls, hits429, waits, delays, throttled, events>>

\* a variant starts like src/tool/main.go, in any of the environments
InitV ==
    /\ variant \in Variants
    /\ args \in ArgLists
    /\ env \in VEnvs
    /\ config = NoConfig
    /\ auth = NoAuth
    /\ fatal = NoFatal
    /\ sessionCalls = 0
    /\ profileCalls = 0
    /\ events = <<>>
    /\ kind = NilFunc
    /\ pc = "main"
    /\ accounts = <<>>
    /\ cursor = ""
    /\ pageNum = 0
    /\ currentCursor = ""
    /\ operationName = NoName
    /\ attempt = 0
    /\ backoff = 0
    /\ lastErr = NoErr
    /\ fs = NilResult
    /\ err = NoErr
    /\ ret = NoRet
    /\ stdout = <<>>
    /\ served = <<>>
    /\ lastCall = NoCall
    /\ lastReturned = NoErr
    /\ calls = 0
    /\ hits429 = 0
    /\ waits = <<>>
    /\ delays = 0
    /\ throttled = FALSE
    /\ totalCalls = 0

\* main of a variant checks its arguments with the statements of
\* src/tool/main.go
VParseArgs == ParseArgs /\ UNCHANGED auxVars

\* main: read the three variables in order, in part_000 printing each value,
\* and panic at the first that is unset or empty
VReadEnv ==
    /\ pc = "env"
    /\ stdout' = stdout \o EnvPrinted(variant, env)
    /\ IF FirstUnset(env) # 0
       THEN /\ pc' = "panic"
            /\ fatal' = Fatal(EnvNames[FirstUnset(env)], NoErr)
            /\ config' = config
       ELSE /\ pc' = IF ChecksServer(variant) THEN "describe" ELSE "session"
            /\ config' = [bskyHandle |-> env.BSKY_HANDLE,
                          bskyAppPwd |-> env.BSKY_APP_PWD,
                          bskyInstance |-> env.BSKY_INSTANCE]
            /\ fatal' = fatal
    /\ UNCHANGED <<kind, accounts, cursor, fs, err, ret, served, lastCall,
                   args, env, auth, sessionCalls, profileCalls, toolVars,
                   auxVars>>

\* main of part_000 and of the first program of part_001: the sanity check
\* with the server, whose answer is dropped unless it is an error
VDescribeServer(e) ==
    /\ pc = "describe"
    /\ IF e # NoErr
       THEN /\ pc' = "panic"
            /\ fatal' = Fatal("ServerDescribeServer failed", e)
       ELSE /\ pc' = "session"
            /\ fatal' = fatal
    /\ UNCHANGED <<kind, accounts, cursor, fs, err, ret, stdout, served,
                   lastCall, args, env, config, auth, sessionCalls,
                   profileCalls, toolVars, auxVars>>

\* main: create the session; part_000 and the first program of part_001
\* then check the tokens and only then build client.Auth, the second program
\* of part_001 has set client.Auth.Handle before the call
VCreateSession(resp) ==
    /\ pc = "session"
    /\ sessionCalls' = sessionCalls + 1
    /\ IF resp \in BootstrapErrors
       THEN /\ pc' = "panic"
            /\ fatal' = Fatal("ServerCreateSession failed", resp)
            /\ auth' = IF ChecksServer(variant) THEN auth
                       ELSE [NoAuth EXCEPT !.Handle = config.bskyHandle]
       ELSE IF ChecksServer(variant) /\ TokenFault(resp) # ""
       THEN /\ pc' = "panic"
            /\ fatal' = Fatal(TokenFault(resp), NoErr)
            /\ auth' = auth
       ELSE /\ pc' = "selfid"
            /\ fatal' = fatal
            /\ auth' = [Handle |-> resp.Handle, AccessJwt |-> resp.AccessJwt,
                        RefreshJwt |-> resp.RefreshJwt, Did |-> resp.Did]
    /\ UNCHANGED <<kind, accounts, cursor, fs, err, ret, stdout, served,
                   lastCall, args, env, config, profileCalls, toolVars,
                   auxVars>>

\* main: selfID and the command id, with the statements of src/tool/main.go
VSelfID(resp) == SelfID(resp) /\ UNCHANGED auxVars

\* print calls fnc(ctx, c, did): the listing function declares its locals;
\* blocked of part_000 returns its empty accounts at once
VListingEnter ==
    /\ pc = "print"
    /\ accounts' = <<>>
    /\ cursor' = ""
    /\ IF kind = NilFunc
       THEN /\ pc' = "panic"
            /\ fatal' = Fatal("nil func", NoErr)
            /\ ret' = ret
       ELSE IF ~HasLoop(variant, kind)
       THEN /\ pc' = "print_ret"
            /\ ret' = [out |-> <<>>, err |-> NoErr]
            /\ fatal' = fatal
       ELSE /\ pc' = "loop"
            /\ ret' = ret
            /\ fatal' = fatal
    /\ UNCHANGED <<kind, fs, err, stdout, served, lastCall, args, env, config,
                   auth, sessionCalls, profileCalls, toolVars, auxVars>>

\* one iteration of a variant's listing loop: the call with the cursor, then
\* return nil and the error, or append the page, take its cursor if it has
\* one, and break and return the accounts on a zero-item page
VFetch(resp) ==
    /\ pc = "loop"
    /\ Len(served) < MaxPages
    /\ lastCall' = VCallParams(kind, auth.Did, cursor)
    /\ totalCalls' = totalCalls + 1
    /\ IF ~IsPage(resp)
       THEN /\ err' = resp
            /\ fs' = NilResult
            /\ ret' = [out |-> <<>>, err |-> resp]
            /\ pc' = "print_ret"
            /\ UNCHANGED <<accounts, cursor, served>>
       ELSE LET r == VLoopBody(accounts, cursor, resp)
            IN  /\ err' = NoErr
                /\ fs' = resp
                /\ served' = Append(served, resp)
                /\ accounts' = r.accounts
                /\ cursor' = r.cursor
                /\ IF r.brk
                   THEN /\ ret' = [out |-> r.accounts, err |-> NoErr]
                        /\ pc' = "print_ret"
                   ELSE /\ ret' = ret
                        /\ pc' = "loop"
    /\ UNCHANGED <<kind, stdout, args, env, config, auth, fatal, sessionCalls,
                   profileCalls, toolVars, variant>>

\* print after fnc returned, with the statements of src/tool/main.go
VPrintOut == PrintOut /\ UNCHANGED auxVars

NextV ==
    \/ VParseArgs
    \/ VReadEnv
    \/ \E e \in {NoErr} \cup BootstrapErrors : VDescribeServer(e)
    \/ \E resp \in (IF ChecksServer(variant) THEN VSessionOutputs
                    ELSE SessionOutputs) \cup BootstrapErrors :
          VCreateSession(resp)
    \/ \E resp \in ProfileOutputs \cup BootstrapErrors : VSelfID(resp)
    \/ VListingEnter
    \/ \E resp \in Responses : VFetch(resp)
    \/ VPrintOut

SpecV == InitV /\ [][NextV]_vars

\* ------------------------------------------------------------ properties
\* the ordered concatenation of the items of a sequence of pages
RECURSIVE Flatten(_)
Flatten(ps) ==
    IF ps = <<>> THEN <<>>
    ELSE Flatten(SubSeq(ps, 1, Len(ps) - 1)) \o ps[Len(ps)].Items

\* a token that is present and not the empty string
TokenNonEmpty(p) == p.Cursor # <<>> /\ p.Cursor # <<"">>

\* the listing has returned without error
Succeeded == pc \in {"print_ret", "exit"} /\ ret.err = NoErr /\ served # <<>>

\* the latest page the remote returned
LastServed == served[Len(served)]

\* C1: with no throttling and no error, the listing returns exactly the
\* ordered concatenation of the items of every page it fetched, the
\* terminating page included; while it runs, the accounts accumulated are the
\* concatenation of the pages already appended.
C1_ResultIsConcatenation ==
    ~throttled =>
        /\ Succeeded => ret.out = Flatten(served)
        /\ pc \in {"loop", "retry"} => accounts = Flatten(served)
        /\ (pc = "returned" /\ err = NoErr) =>
               accounts = Flatten(SubSeq(served, 1, Len(served) - 1))

C1_Witness ==
    /\ pc = "exit"
    /\ ~throttled
    /\ Len(served) >= 2
    /\ served[1].Items = <<acctA, acctB>>
    /\ served[2].Items = <<acctB>>
    /\ ret.out = <<acctA, acctB, acctB>>

\* C2: 429 answers that stay within maxRetries per page are invisible in the
\* result: a failed attempt leaves the accumulated accounts as they were,
\* retryWithBackoff reports an error only for a non-429 error or after
\* maxRetries + 1 429s in a row, every page is appended exactly once, and the
\* Result Set is the one the same pages give with no throttling at all.
C2_ThrottlingInvisible ==
    /\ pc \in {"loop", "retry"} =>
           /\ accounts = Flatten(served)
           /\ Len(served) = IF pc = "retry" THEN pageNum - 1 ELSE pageNum
    /\ (pc = "returned" /\ err # NoErr) =>
           \/ ~(lastReturned.type = "xrpc" /\ lastReturned.StatusCode = 429)
           \/ hits429 = maxRetries + 1
    /\ Succeeded =>
           /\ Len(served) = pageNum
           /\ ret.out = ListingOf(served, 1, <<>>)

C2_Witness ==
    /\ pc = "exit"
    /\ throttled
    /\ hits429 = maxRetries
    /\ Len(served) >= 2
    /\ ret.out = <<acctA, acctB, acctA>>

\* C3: a page with zero items is the last page fetched, whatever its token:
\* no listing call follows it. When the first page has zero items and a
\* non-empty token the Result Set is empty and one page was fetched.
C3_EmptyPageTerminates ==
    /\ \A i \in 1..Len(served) : Len(served[i].Items) = 0 => i = Len(served)
    /\ (served # <<>> /\ Len(LastServed.Items) = 0) =>
           /\ pc \in {"returned", "print_ret", "exit"}
           /\ lastCall.page = Len(served)
           /\ pageNum = Len(served)
    /\ (served # <<>> /\ Len(served[1].Items) = 0
            /\ pc \in {"print_ret", "exit"}) =>
           /\ ret = [out |-> <<>>, err |-> NoErr]
           /\ Len(served) = 1
           /\ pageNum = 1

C3_Witness ==
    /\ pc = "exit"
    /\ Len(served) = 1
    /\ served[1].Items = <<>>
    /\ served[1].Cursor = <<"T1">>
    /\ ret.out = <<>>
    /\ stdout = <<>>

\* C4: after a fetched page with at least one item, a further listing call
\* is made if and only if the page's token is present and non-empty: every
\* page followed by another call had a non-empty token, and a listing that
\* has returned its accounts ended on a page with no items or with an absent
\* or empty token.
C4_ContinueIffToken ==
    /\ \A i \in 1..(Len(served) - 1) :
           Len(served[i].Items) > 0 /\ TokenNonEmpty(served[i])
    /\ (served # <<>> /\ (pc \in {"loop", "retry"} \/ lastCall.page > Len(served))) =>
           Len(LastServed.Items) > 0 /\ TokenNonEmpty(LastServed)
    /\ (served # <<>> /\ pc \in {"print_ret", "exit", "panic"}
            /\ Len(LastServed.Items) > 0 /\ TokenNonEmpty(LastServed)) =>
           lastCall.page = Len(served) + 1 /\ ret.err # NoErr
    /\ (Succeeded /\ Len(LastServed.Items) > 0) =>
           /\ ~TokenNonEmpty(LastServed)
           /\ lastCall.page = Len(served)

C4_Witness ==
    /\ pc = "exit"
    /\ Len(served) = 2
    /\ served[1] = [Items |-> <<acctA>>, Cursor |-> <<"T1">>]
    /\ served[2] = [Items |-> <<acctB>>, Cursor |-> <<"">>]
    /\ lastCall.page = 2

\* initialBackoff x 2^(i-1)
RECURSIVE ExpectedWait(_)
ExpectedWait(i) == IF i = 1 THEN 2 ELSE 2 * ExpectedWait(i - 1)

\* the waits 2s, 4s, 8s, 16s, 32s
AllWaits == <<2, 4, 8, 16, 32>>

\* retryWithBackoff has returned to the listing loop
Returned == pc = "returned"

\* C5: when the operation answers 429 K times (0 <= K <= 5) and then
\* succeeds, retryWithBackoff returns that page with no error after exactly
\* K + 1 calls and exactly K waits, the i-th wait being 2 x 2^(i-1) seconds.
C5_BackoffThenSuccess ==
    (Returned /\ err = NoErr) =>
        /\ hits429 \in 0..5
        /\ fs = LastServed
        /\ calls = hits429 + 1
        /\ Len(waits) = hits429
        /\ \A i \in 1..Len(waits) : waits[i] = ExpectedWait(i)
        /\ waits = SubSeq(AllWaits, 1, hits429)

C5_Witness ==
    /\ Returned
    /\ err = NoErr
    /\ hits429 = 5
    /\ calls = 6
    /\ waits = <<2, 4, 8, 16, 32>>
    /\ fs.Items = <<acctA, acctB>>

\* C6: when every call answers 429, retryWithBackoff makes exactly 6 calls
\* and exactly 5 waits (2s, 4s, 8s, 16s, 32s, none after the last failed
\* call) and returns an error with a nil result; it never makes a 7th call.
C6_ExhaustionAfterSixCalls ==
    /\ calls <= 6
    /\ (pc = "retry" /\ calls > 0) =>
           /\ hits429 = calls
           /\ Len(waits) = calls - 1
    /\ (Returned /\ hits429 = calls) =>
           /\ calls = 6
           /\ waits = <<2, 4, 8, 16, 32>>
           /\ err # NoErr
           /\ err.type = "exhausted"
           /\ fs = NilResult

C6_Witness ==
    /\ Returned
    /\ hits429 = 6
    /\ calls = 6
    /\ err.type = "exhausted"
    /\ waits = <<2, 4, 8, 16, 32>>

\* the latest failed call returned an error that is not a 429
NonRateLimitReturned ==
    /\ lastReturned # NoErr
    /\ ~(lastReturned.type = "xrpc" /\ lastReturned.StatusCode = 429)

\* C7: once a call returns an error that is not a 429, on the first attempt
\* or after 429s, retryWithBackoff returns exactly that error and a nil
\* result: no further call and no further wait is made (calls and waits stay
\* at one call and one wait per 429 received before it; none at all on the
\* first attempt), and the listing returns that error.
C7_NonRateLimitFailsAtOnce ==
    NonRateLimitReturned =>
        /\ pc \in {"returned", "print_ret", "panic"}
        /\ err = lastReturned
        /\ err.type # "exhausted"
        /\ fs = NilResult
        /\ calls = hits429 + 1
        /\ Len(waits) = hits429
        /\ calls = 1 => waits = <<>>
        /\ lastCall.page = pageNum
        /\ pc # "returned" => ret.err = lastReturned

C7_Witness ==
    /\ Returned
    /\ err = [type |-> "xrpc", StatusCode |-> 500, msg |-> "e1"]
    /\ hits429 = 2
    /\ calls = 3
    /\ waits = <<2, 4>>

\* C8: the retry-exhaustion error names the operation retryWithBackoff was
\* given (the remote call of the listing and the number of the page being
\* fetched), the number of retries made (5), and wraps the error the last
\* call returned.
C8_ExhaustionErrorContents ==
    (Returned /\ err.type = "exhausted") =>
        /\ err.operationName = [call |-> Method(kind), page |-> pageNum]
        /\ err.operationName.page = Len(served) + 1
        /\ err.retries = 5
        /\ err.retries = calls - 1
        /\ err.wrapped = lastReturned
        /\ err.wrapped.StatusCode = 429

C8_Witness ==
    /\ Returned
    /\ err.type = "exhausted"
    /\ pageNum = 2
    /\ kind = "muted"
    /\ err.operationName = [call |-> "GraphGetMutes", page |-> 2]
    /\ err.wrapped.msg = "e2"

\* C9: when a page fetch fails, on the first page or after fetched pages,
\* the listing returns that error with a nil Result Set and nothing is
\* written to standard output; output exists only once the listing has
\* returned without error, after its last page was fetched.
C9_NoPartialResult ==
    /\ (pc \in {"print_ret", "panic"} /\ ret.err # NoErr) =>
           /\ ret.out = <<>>
           /\ ret.err = err
    /\ pc # "exit" => stdout = <<>>
    /\ (pc = "panic" /\ lastCall # NoCall) => ret.err # NoErr /\ fatal.cause = err
    /\ (pc = "exit" /\ kind \in Kinds) =>
           /\ ret.err = NoErr
           /\ Len(served) = pageNum
           /\ Len(stdout) = Len(Flatten(served))

C9_Witness ==
    /\ pc = "panic"
    /\ Len(served) = 2
    /\ accounts = <<acctA, acctB, acctA>>
    /\ ret.out = <<>>
    /\ ret.err.type = "exhausted"
    /\ stdout = <<>>

\* C10: every listing call carries the limit 100; the calls for page 1 carry
\* the empty token and the calls for page n+1 carry the token returned with
\* page n, on the first attempt and on every retry.
C10_CursorThreading ==
    lastCall # NoCall =>
        /\ lastCall.limit = 100
        /\ lastCall.method = Method(kind)
        /\ lastCall.page \in 1..pageNum
        /\ lastCall.page = 1 => lastCall.cursor = ""
        /\ lastCall.page > 1 =>
               /\ served[lastCall.page - 1].Cursor # <<>>
               /\ lastCall.cursor = served[lastCall.page - 1].Cursor[1]
               /\ lastCall.cursor # ""

C10_Witness ==
    /\ pc = "retry"
    /\ calls = 3
    /\ lastCall.page = 3
    /\ lastCall.cursor = "T1"
    /\ served[1].Cursor = <<"T2">>
    /\ served[2].Cursor = <<"T1">>

\* the durations of the sleeps of a trace, in order
SleepsOf(evs) ==
    LET sel == SelectSeq(evs, LAMBDA e : e.type = "sleep")
    IN  [i \in 1..Len(sel) |-> sel[i].d]

\* a listing call has been made
ListingStarted == lastCall # NoCall

\* C11: the 1s inter-page delay is slept exactly once after each fetched
\* page that is followed by another page fetch, so P fetched pages give
\* P - 1 delays; it is not slept between the retries of a page nor after the
\* terminating page, and it comes on top of the backoff waits of the page.
C11_InterPageDelay ==
    /\ pc = "loop" => delays = pageNum
    /\ (pc = "loop" /\ pageNum > 0) => SleepsOf(events) = waits \o <<1>>
    /\ pc \in {"retry", "returned"} =>
           /\ delays = pageNum - 1
           /\ SleepsOf(events) = waits
           /\ \A i \in 1..Len(waits) : waits[i] # 1
    /\ (pc \in {"print_ret", "exit", "panic"} /\ ListingStarted) =>
           /\ delays = pageNum - 1
           /\ SleepsOf(events) = waits
    /\ Succeeded => delays = Len(served) - 1

C11_Witness ==
    /\ pc = "exit"
    /\ Len(served) = 3
    /\ delays = 2
    /\ waits = <<2, 4>>
    /\ SleepsOf(events) = <<2, 4>>

\* 2 x 2^k
RECURSIVE BackoffAfter(_)
BackoffAfter(k) == IF k = 0 THEN 2 ELSE 2 * BackoffAfter(k - 1)

\* C12: retry state belongs to one page fetch: every retryWithBackoff starts
\* at attempt 0 with backoff 2s and no last error, whatever 429s earlier
\* pages received; during it attempt counts only the 429s of this page, the
\* backoff is 2s doubled once per wait of this page, and retries are
\* exhausted only by six 429s for this page.
C12_RetryStatePerPage ==
    /\ (pc = "retry" /\ calls = 0) =>
           /\ attempt = 0
           /\ backoff = 2
           /\ lastErr = NoErr
    /\ pc = "retry" =>
           /\ attempt = hits429
           /\ backoff = BackoffAfter(Len(waits))
           /\ Len(waits) = IF hits429 = 0 THEN 0 ELSE hits429 - 1
    /\ (pc = "returned" /\ err.type = "exhausted") => hits429 = 6
    /\ (pc = "returned" /\ err = NoErr) => waits = SubSeq(AllWaits, 1, hits429)

C12_Witness ==
    /\ pc = "retry"
    /\ pageNum = 2
    /\ calls = 0
    /\ throttled
    /\ attempt = 0
    /\ backoff = 2

\* the run was started with the single argument id
IdRun == Len(args) = 1 /\ args[1] = "id"

\* C13: for the command id no listing function is entered and no listing
\* call is made: only session creation and the profile fetch run, each once,
\* and the only write to standard output is the caller's own identifier,
\* with no line terminator.
C13_IdSkipsListing ==
    IdRun =>
        /\ pc \in {"main", "env", "session", "selfid", "exit", "panic"}
        /\ lastCall = NoCall
        /\ served = <<>>
        /\ pageNum = 0
        /\ events = <<>>
        /\ sessionCalls <= 1
        /\ profileCalls <= 1
        /\ pc = "exit" =>
               /\ stdout = << <<"did:self">> >>
               /\ auth.Did = "did:self"
               /\ sessionCalls = 1
               /\ profileCalls = 1
        /\ pc # "exit" => stdout = <<>>

C13_Witness ==
    /\ IdRun
    /\ pc = "exit"
    /\ stdout = << <<"did:self">> >>
    /\ lastCall = NoCall

\* the arguments or the environment are not what main requires
BadConfig ==
    \/ Len(args) # 1
    \/ args[1] \notin {"id", "following", "followers", "mutes", "blocks"}
    \/ env.BSKY_HANDLE = ""
    \/ env.BSKY_APP_PWD = ""
    \/ env.BSKY_INSTANCE = ""

\* C14: with a wrong number of arguments, an unknown command or an unset or
\* empty BSKY_HANDLE, BSKY_APP_PWD or BSKY_INSTANCE, the process only checks
\* and panics: no session is created, no profile is fetched, no listing
\* call is made and nothing is written to standard output.
C14_ConfigErrorAbortsEarly ==
    /\ BadConfig =>
           /\ pc \in {"main", "env", "panic"}
           /\ sessionCalls = 0
           /\ profileCalls = 0
           /\ lastCall = NoCall
           /\ stdout = <<>>
           /\ auth = NoAuth
           /\ pc = "env" => (Len(args) = 1 /\ args[1] \in DOMAIN cmds)
           /\ pc = "panic" => (fatal.msg # "" /\ fatal.cause = NoErr)
    /\ (sessionCalls > 0 \/ profileCalls > 0 \/ lastCall # NoCall
            \/ stdout # <<>>) => ~BadConfig

C14_Witness ==
    /\ pc = "panic"
    /\ args = <<"following">>
    /\ env.BSKY_HANDLE # ""
    /\ env.BSKY_APP_PWD = ""
    /\ fatal.msg = "BSKY_APP_PWD"
    /\ sessionCalls = 0

\* C15: after a successful listing standard output holds exactly one write
\* per account of the Result Set, in Result Set order, each the identifier,
\* a comma, the handle and a line terminator, and nothing else; the number
\* of lines is the number of accounts fetched.
C15_OutputLines ==
    (pc = "exit" /\ kind \in Kinds) =>
        LET all == Flatten(served)
        IN  /\ Len(stdout) = Len(all)
            /\ Len(stdout) = Len(ret.out)
            /\ \A i \in 1..Len(stdout) :
                   stdout[i] = <<all[i].Did, ",", all[i].Handle, "\n">>

C15_Witness ==
    /\ pc = "exit"
    /\ Len(served) = 3
    /\ served[1] = [Items |-> <<acctA, acctB>>, Cursor |-> <<"T1">>]
    /\ served[2] = [Items |-> <<acctA, acctB>>, Cursor |-> <<"T2">>]
    /\ served[3] = [Items |-> <<acctB>>, Cursor |-> <<"">>]
    /\ Len(stdout) = 5
    /\ stdout[5] = <<"did:b", ",", "bob", "\n">>

\* a result of a loop body with the listing function's own parts left out
\* (there are none: the accounts, the cursor and the break decision)
SameBody(r1, r2) ==
    /\ r1.accounts = r2.accounts
    /\ r1.cursor = r2.cursor
    /\ r1.brk = r2.brk

\* two remote calls that agree in everything but the method and the actor
SameCallShape(c1, c2) ==
    /\ c1.cursor = c2.cursor
    /\ c1.limit = c2.limit
    /\ c1.page = c2.page

C17_Original ==
    ListingStarted =>
        /\ kind = "blocked" <=> lastCall.actor = <<>>
        /\ kind # "blocked" => lastCall.actor = <<auth.Did>>

\* C17, amended: the remote calls of blocks and of mutes take no target
\* account; every call of following and followers carries the identifier
\* passed to the listing function (client.Auth.Did).
C17_ActorParameter ==
    ListingStarted =>
        /\ kind \in {"blocked", "muted"} <=> lastCall.actor = <<>>
        /\ kind \in {"following", "followers"} =>
               /\ lastCall.actor = <<auth.Did>>
               /\ lastCall.actor = <<"did:self">>

C17_Witness ==
    /\ kind = "muted"
    /\ pc = "retry"
    /\ calls = 2
    /\ lastCall.method = "GraphGetMutes"
    /\ lastCall.actor = <<>>

\* the process panicked because session creation or the profile fetch failed
BootstrapFailed ==
    pc = "panic" /\ fatal.msg \in {"ServerCreateSession failed", "selfID failed"}

\* C18: only listing calls are retried. Session creation and the profile
\* fetch are each called at most once; when either fails, a 429 included,
\* the process panics with that error after no wait, no listing call and no
\* output; and a listing call is made only after both have succeeded.
C18_BootstrapNotRetried ==
    /\ sessionCalls <= 1
    /\ profileCalls <= 1
    /\ pc \in {"main", "env", "session", "selfid"} =>
           /\ waits = <<>>
           /\ events = <<>>
           /\ lastCall = NoCall
           /\ stdout = <<>>
    /\ pc = "selfid" => (sessionCalls = 1 /\ profileCalls = 0)
    /\ BootstrapFailed =>
           /\ fatal.cause \in BootstrapErrors
           /\ waits = <<>>
           /\ events = <<>>
           /\ lastCall = NoCall
           /\ stdout = <<>>
           /\ sessionCalls = 1
           /\ profileCalls = IF fatal.msg = "selfID failed" THEN 1 ELSE 0
    /\ ListingStarted =>
           /\ sessionCalls = 1
           /\ profileCalls = 1
           /\ ~BootstrapFailed

C18_Witness ==
    /\ pc = "panic"
    /\ args = <<"followers">>
    /\ fatal.msg = "selfID failed"
    /\ fatal.cause = [type |-> "xrpc", StatusCode |-> 429, msg |-> "e1"]
    /\ profileCalls = 1
    /\ lastCall = NoCall

\* the entries of a trace of one type
OfType(evs, t) == SelectSeq(evs, LAMBDA e : e.type = t)

\* C19: in the trace of a page fetch every retry log line is followed at
\* once by a sleep of the duration it states and then by the call; it
\* states the retry number (the k-th line says k, at most 5), the cap 5 and
\* the operation name; every backoff sleep has such a line right before it,
\* and the inter-page delay, the only other sleep, has none. The lines
\* correspond one to one to the waits, and the calls are as many as counted.
C19_RetryLogBeforeWait ==
    /\ \A i \in 1..Len(events) :
           /\ events[i].type = "log_retry" =>
                  /\ i + 2 <= Len(events)
                  /\ events[i + 1].type = "sleep"
                  /\ events[i + 1].d = events[i].d
                  /\ events[i + 2].type = "call"
                  /\ events[i].n \in 1..5
                  /\ events[i].m = 5
                  /\ events[i].name = operationName
           /\ events[i].type = "sleep" =>
                  /\ i > 1
                  /\ \/ /\ events[i - 1].type = "log_retry"
                        /\ events[i - 1].d = events[i].d
                     \/ /\ events[i - 1].type = "log_fetched"
                        /\ events[i].d = 1
                        /\ i = Len(events)
                        /\ pc = "loop"
    /\ LET lines == OfType(events, "log_retry")
       IN  /\ Len(lines) = Len(waits)
           /\ \A k \in 1..Len(lines) : lines[k].n = k /\ lines[k].d = waits[k]
    /\ pc \in {"retry", "returned"} => Len(OfType(events, "call")) = calls
    /\ (pc = "returned" /\ err = NoErr) => calls = Len(waits) + 1

C19_Witness ==
    /\ pc = "returned"
    /\ hits429 = 2
    /\ Len(events) = 10
    /\ events[4].type = "log_retry"
    /\ events[4].n = 1
    /\ events[4].d = 2
    /\ events[8].type = "log_retry"
    /\ events[8].n = 2
    /\ events[8].d = 4
    /\ events[9].type = "sleep"
    /\ events[10].type = "call"

\* session creation has succeeded and set client.Auth
Bootstrapped == pc \notin {"main", "env", "session"} /\ sessionCalls = 1 /\ fatal.msg # "ServerCreateSession failed"

\* C20: once session creation has set client.Auth (access token, refresh
\* token, identifier, handle), no step of the run changes it: the profile
\* fetch, every listing call and retry, and the output leave it as it is;
\* the configuration read from the environment stays as read; and every
\* call of following and followers carries that same identifier.
C20_SessionReadOnly ==
    [][Bootstrapped =>
          /\ auth' = auth
          /\ config' = config
          /\ auth = [Handle |-> "me.example", AccessJwt |-> "access",
                     RefreshJwt |-> "refresh", Did |-> "did:self"]
          /\ (lastCall' # NoCall /\ kind \in {"following", "followers"}) =>
                 lastCall'.actor = <<auth.Did>>]_vars

C20_Witness ==
    /\ pc = "exit"
    /\ kind = "following"
    /\ Len(served) = 2
    /\ throttled
    /\ stdout # <<>>
    /\ lastCall.actor = <<"did:self">>
    /\ auth = [Handle |-> "me.example", AccessJwt |-> "access",
               RefreshJwt |-> "refresh", Did |-> "did:self"]


\* ------------------------------------------------------------ C21
\* the process has ended: main returned or panicked
Done == pc \in {"exit", "panic"}

\* the listing function has returned to print
ListingReturned == pc \in {"print_ret", "exit", "panic"} /\ lastCall # NoCall

\* retryWithBackoff has just returned an answer that ends the listing: an
\* error (a non-429 error or the exhaustion after six 429s), a zero-item page,
\* or a page whose token is absent or empty
StopAnswer ==
    /\ pc = "returned"
    /\ \/ err # NoErr
       \/ Len(fs.Items) = 0
       \/ fs.Cursor \in {<<>>, <<"">>}

\* every page served so far has items and a non-empty token
AllContinuing ==
    \A i \in 1..Len(served) :
        /\ Len(served[i].Items) > 0
        /\ served[i].Cursor \notin {<<>>, <<"">>}

\* the model's page bound is reached with the listing still going on
PageBoundReached == pc = "loop" /\ pageNum = MaxPages

\* C21: one retryWithBackoff makes at most maxRetries + 1 = 6 calls of the
\* operation and always returns; a listing that has started P page fetches
\* has made at most 6 * P listing calls; the listing returns, and the process
\* ends, once the remote answers with a non-429 error, six 429s in a row for
\* one page, a zero-item page or a page with an absent or empty token; and it
\* returns for no other reason: as long as every page has items and a
\* non-empty token and no call failed for good, the listing has not returned
\* (it stops only at the page bound of the model)
C21_TerminationAndCalls ==
    /\ [](calls <= 6)
    /\ [](totalCalls <= 6 * pageNum)
    /\ [](lastCall # NoCall /\ AllContinuing /\ err = NoErr => ~ListingReturned)
    /\ (pc = "retry") ~> (pc = "returned")
    /\ StopAnswer ~> Done
    /\ (pc = "retry" /\ hits429 = 6) ~> Done
    /\ <>(Done \/ PageBoundReached)

\* a listing of two pages that took six calls each has returned
C21_Witness ==
    /\ pc = "exit"
    /\ pageNum = 2
    /\ totalCalls = 12
    /\ ret.err = NoErr

\* three pages with items and tokens have been served and the listing is
\* about to fetch the next one
C21_StillRunning == PageBoundReached /\ AllContinuing /\ ~ListingReturned


\* ------------------------------------------------------------ C22
\* the most recent token that was not absent among the pages ps, the empty
\* token if there is none
RECURSIVE LastToken(_)
LastToken(ps) ==
    IF ps = <<>> THEN ""
    ELSE IF ps[Len(ps)].Cursor # <<>> THEN ps[Len(ps)].Cursor[1]
    ELSE LastToken(SubSeq(ps, 1, Len(ps) - 1))

\* the pages that had been returned when the latest listing call was made
PagesBeforeLastCall ==
    IF err = NoErr THEN SubSeq(served, 1, Len(served) - 1) ELSE served

\* C22: in the programs without retry a listing loop is left only on a
\* zero-item page or on an error; after a page with items, whether or not it
\* has a token, the loop is at its top again, every listing call carries the
\* most recent token that was not absent (the empty token if there was none),
\* every page returned is appended to the accounts, and there is exactly one
\* listing call per page returned, plus the failed one
C22_VariantLoopExits ==
    lastCall # NoCall =>
        /\ pc \in {"print_ret", "exit", "panic"} =>
              \/ ret.err # NoErr
              \/ Len(served[Len(served)].Items) = 0
        /\ (err = NoErr /\ Len(served[Len(served)].Items) > 0) => pc = "loop"
        /\ lastCall.cursor = LastToken(PagesBeforeLastCall)
        /\ err = NoErr => accounts = Flatten(served)
        /\ (pc \in {"print_ret", "exit"} /\ ret.err = NoErr) =>
              ret.out = Flatten(served)
        /\ totalCalls = Len(served) + (IF err = NoErr THEN 0 ELSE 1)

\* blocked of the second program of part_001 got a page with the token T1,
\* then a page with items and no token, called again with T1 and appended
\* the third page
C22_Witness ==
    /\ variant = "part_001b"
    /\ kind = "blocked"
    /\ Len(served) = 3
    /\ served[1].Cursor = <<"T1">>
    /\ Len(served[2].Items) > 0
    /\ served[2].Cursor = <<>>
    /\ lastCall.cursor = "T1"
    /\ Len(served[3].Items) > 0
    /\ accounts = served[1].Items \o served[2].Items \o served[3].Items


\* ------------------------------------------------------------ C23
\* the values the three variables are set to
EnvValues == {env.BSKY_HANDLE, env.BSKY_APP_PWD, env.BSKY_INSTANCE} \ {""}

\* what a finished run writes, given its command and the remote's answers
AnswerOutput ==
    IF args[1] = "id" THEN <<(<<selfDid>>)>>
    ELSE [i \in 1..Len(ret.out) |->
             <<ret.out[i].Did, ",", ret.out[i].Handle, "\n">>]

\* C23: standard output does not depend on the configured credential: no
\* value of BSKY_HANDLE, BSKY_APP_PWD or BSKY_INSTANCE is written to it, and
\* the output of a finished run is what its command and the remote's answers
\* determine, whatever the app password
C23_StdoutIndependentOfCredential ==
    /\ \A i \in 1..Len(stdout) :
          \A j \in 1..Len(stdout[i]) : stdout[i][j] \notin EnvValues
    /\ pc = "exit" => stdout = AnswerOutput

\* the same, of the programs other than part_000
C23_OtherPrograms == variant # "part_000" => C23_StdoutIndependentOfCredential

\* part_000 has run the command id with the app password pw2 and has written
\* the password to standard output
C23_PasswordPrinted ==
    /\ variant = "part_000"
    /\ pc = "exit"
    /\ args = <<"id">>
    /\ env.BSKY_APP_PWD = "pw2"
    /\ stdout = <<(<<"me.test", "\n">>), <<"pw2", "\n">>,
                  <<"https://host", "\n">>, <<selfDid>>>>

====
